---- MODULE Spec2Model ----
(***************************************************************************)
(* DAT-Monitor reconciliation pipeline: classifier (scraper/parser.py),    *)
(* oscillation guard (scraper/state_guard.py) and orchestrator             *)
(* (scraper/updater.py), with the two persisted files (ledger data.json    *)
(* and holdings_history.json) and the temp-file + os.replace write         *)
(* discipline.                                                             *)
(*                                                                         *)
(* Text is a sequence of one-character strings, so that keyword search is  *)
(* the case-insensitive substring search of the source.  Dates are the     *)
(* value of a logical clock.  A history key "TICKER:TOKEN" is the pair     *)
(* <<ticker, token>>.                                                      *)
(***************************************************************************)
EXTENDS Integers, Sequences, FiniteSets, TLC

VARIABLES
    dataFile,   \* ledger file at data_path: [len, body]
    histFile,   \* history file at history_path: [len, body]
    dataTmp,    \* temp file of the running save_data
    histTmp,    \* temp file of the running save_history
    orphans,    \* temp files left behind by killed processes
    pc,         \* position of the process inside run_batch
    data,       \* run_batch local: the loaded ledger dict
    history,    \* run_batch local: the loaded history mapping
    dirty,      \* run_batch local
    summary,    \* run_batch local: the counters returned
    idx,        \* number of signals of the batch consumed by the loop
    runs,       \* number of run_batch calls started
    clock,      \* logical time: datetime.now() / date.today()
    last,       \* the signal consumed by the latest loop iteration and its outcome
    log,        \* the list of signals given to run_batch, as far as the first run read it
    prev,       \* how the previous run_batch call ended
    snapData,   \* ledger file as it was when the current run_batch loaded it
    snapHist,   \* history file as it was when the current run_batch loaded it
    goalData,   \* ledger content the persist step of the current batch writes
    goalHist,   \* history content the persist step of the current batch writes
    hIn,        \* function harness: the arguments drawn for the function under check
    hOut        \* function harness: what the function returned for hIn

vars == <<dataFile, histFile, dataTmp, histTmp, orphans, pc, data, history,
          dirty, summary, idx, runs, clock, last, log, prev, snapData,
          snapHist, goalData, goalHist, hIn, hOut>>

(***************************************************************************)
(* Bounds of the model                                                     *)
(***************************************************************************)
MaxBatchLen == 2   \* signals per batch
MaxRuns == 2       \* run_batch calls per behaviour
MaxWords == 2      \* words per text drawn for classify

Min(a, b) == IF a < b THEN a ELSE b

(***************************************************************************)
(* scraper/config.py                                                       *)
(***************************************************************************)

SHARE_KEYWORDS ==
    << <<"b", "u", "y", "b", "a", "c", "k">>,
       <<"r", "e", "p", "u", "r", "c", "h", "a", "s", "e">>,
       <<"s", "h", "a", "r", "e">>,
       <<"s", "t", "o", "c", "k">>,
       <<"e", "q", "u", "i", "t", "y">>,
       <<"c", "o", "m", "m", "o", "n", " ", "s", "t", "o", "c", "k">> >>

TOKEN_KEYWORDS ==
    << <<"h", "o", "l", "d", "i", "n", "g", "s">>,
       <<"t", "r", "e", "a", "s", "u", "r", "y">>,
       <<"p", "u", "r", "c", "h", "a", "s", "e", "d">>,
       <<"a", "c", "q", "u", "i", "r", "e", "d">>,
       <<"t", "o", "k", "e", "n">>,
       <<"c", "o", "i", "n">>,
       <<"w", "a", "l", "l", "e", "t">>,
       <<"s", "t", "a", "k", "i", "n", "g">> >>

CONFIRMATION_KEYWORDS ==
    << <<"n", "e", "w", " ", "f", "i", "l", "i", "n", "g">>,
       <<"c", "o", "n", "f", "i", "r", "m", "e", "d">>,
       <<"a", "c", "q", "u", "i", "r", "e", "d">>,
       <<"p", "u", "r", "c", "h", "a", "s", "e", "d">>,
       <<"8", "-", "k">>,
       <<"p", "r", "e", "s", "s", " ", "r", "e", "l", "e", "a", "s", "e">> >>

DECREASE_KEYWORDS ==
    << <<"s", "o", "l", "d">>,
       <<"d", "i", "s", "p", "o", "s", "e", "d">>,
       <<"r", "e", "d", "u", "c", "e", "d">>,
       <<"l", "i", "q", "u", "i", "d", "a", "t", "e", "d">>,
       <<"t", "r", "a", "n", "s", "f", "e", "r", "r", "e", "d">>,
       <<"d", "i", "s", "t", "r", "i", "b", "u", "t", "e", "d">>,
       <<"d", "i", "v", "e", "s", "t", "e", "d">>,
       <<"d", "e", "c", "r", "e", "a", "s", "e", "d">> >>

SMALL_VALUE_FLOOR == 50

\* LARGE_DECREASE_THRESHOLD = 0.50, kept as the exact fraction Num/Den
LARGE_DECREASE_THRESHOLD_NUM == 50

LARGE_DECREASE_THRESHOLD_DEN == 100

(***************************************************************************)
(* str.lower() and the `in` substring test                                 *)
(***************************************************************************)
UpperToLower ==
    [c \in {"A", "B", "C", "D", "E", "F", "G", "H", "I", "J", "K", "L", "M", "N", "O", "P", "Q", "R", "S", "T", "U", "V", "W", "X", "Y", "Z"} |->
        IF c = "A" THEN "a"
        ELSE IF c = "B" THEN "b"
        ELSE IF c = "C" THEN "c"
        ELSE IF c = "D" THEN "d"
        ELSE IF c = "E" THEN "e"
        ELSE IF c = "F" THEN "f"
        ELSE IF c = "G" THEN "g"
        ELSE IF c = "H" THEN "h"
        ELSE IF c = "I" THEN "i"
        ELSE IF c = "J" THEN "j"
        ELSE IF c = "K" THEN "k"
        ELSE IF c = "L" THEN "l"
        ELSE IF c = "M" THEN "m"
        ELSE IF c = "N" THEN "n"
        ELSE IF c = "O" THEN "o"
        ELSE IF c = "P" THEN "p"
        ELSE IF c = "Q" THEN "q"
        ELSE IF c = "R" THEN "r"
        ELSE IF c = "S" THEN "s"
        ELSE IF c = "T" THEN "t"
        ELSE IF c = "U" THEN "u"
        ELSE IF c = "V" THEN "v"
        ELSE IF c = "W" THEN "w"
        ELSE IF c = "X" THEN "x"
        ELSE IF c = "Y" THEN "y"
        ELSE "z"]


lower(text) ==
    [i \in 1..Len(text) |->
        IF text[i] \in DOMAIN UpperToLower THEN UpperToLower[text[i]] ELSE text[i]]

\* needle in haystack
Contains(needle, haystack) ==
    \E i \in 0..(Len(haystack) - Len(needle)) :
        \A j \in 1..Len(needle) : haystack[i + j] = needle[j]

\* text[:n]
Truncate(text, n) == SubSeq(text, 1, Min(n, Len(text)))

(***************************************************************************)
(* Texts                                                                   *)
(***************************************************************************)

TxtHoldings == <<"B", "T", "C", " ", "h", "o", "l", "d", "i", "n", "g", "s">>

TxtAcquired == <<"A", "c", "q", "u", "i", "r", "e", "d", " ", "B", "T", "C">>

TxtSold == <<"s", "o", "l", "d", " ", "t", "o", "k", "e", "n", "s">>

TxtBuyback == <<"9", "M", " ", "s", "h", "a", "r", "e", " ", "b", "u", "y", "b", "a", "c", "k">>

TxtFiling == <<"8", "-", "K", " ", "f", "i", "l", "i", "n", "g">>

TxtEmpty == << >>

\* context_text = None: no character sequence; text.lower() raises AttributeError
NoneText == <<"None">>

\* bool(text) of `if scraped.context_text`
IsTruthy(text) == text # << >> /\ text # NoneText

\* context_text values of the signals given to run_batch
ContextTexts == {TxtHoldings, TxtAcquired, TxtSold, TxtBuyback, TxtFiling, TxtEmpty}

\* words of the texts drawn for classify
Vocabulary ==
    { <<"S", "h", "a", "r", "e", "s">>,
      <<"b", "u", "y", "b", "a", "c", "k">>,
      <<"c", "o", "m", "m", "o", "n">>,
      <<"s", "t", "o", "c", "k">>,
      <<"H", "o", "l", "d", "i", "n", "g", "s">>,
      <<"b", "i", "t", "c", "o", "i", "n">>,
      <<"a", "c", "q", "u", "i", "r", "e", "d">>,
      <<"8", "-", "K">>,
      <<"t", "h", "e">> }

(***************************************************************************)
(* scraper/parser.py                                                       *)
(***************************************************************************)
\* the keywords of the tuple that occur in the text, in tuple order
_score_keywords(text, keywords) ==
    LET matched == SelectSeq(keywords, LAMBDA kw : Contains(lower(kw), lower(text)))
    IN  [count |-> Len(matched), matched |-> matched]

\* classify with a tie going to TOKEN_HOLDING
classify_TieIsToken(text) ==
    LET share == _score_keywords(text, SHARE_KEYWORDS)
        token == _score_keywords(text, TOKEN_KEYWORDS)
    IN  [classification |->
            IF share.count > token.count THEN "SHARE_BUYBACK"
            ELSE IF token.count >= share.count THEN "TOKEN_HOLDING"
            ELSE "UNKNOWN",
         raw_text |-> text,
         confidence_keywords |-> share.matched \o token.matched]

classify(text) ==
    LET share == _score_keywords(text, SHARE_KEYWORDS)
        token == _score_keywords(text, TOKEN_KEYWORDS)
    IN  [classification |->
            IF share.count > token.count THEN "SHARE_BUYBACK"
            ELSE IF token.count > share.count THEN "TOKEN_HOLDING"
            ELSE "UNKNOWN",
         raw_text |-> text,
         confidence_keywords |-> share.matched \o token.matched]

(***************************************************************************)
(* scraper/state_guard.py                                                  *)
(***************************************************************************)
_contains_confirmation(text) ==
    \E i \in 1..Len(CONFIRMATION_KEYWORDS) :
        Contains(lower(CONFIRMATION_KEYWORDS[i]), lower(text))

_contains_decrease_keyword(text) ==
    \E i \in 1..Len(DECREASE_KEYWORDS) :
        Contains(lower(DECREASE_KEYWORDS[i]), lower(text))

\* the three text scans, computed once per context text
TextScan ==
    [t \in ContextTexts \cup {NoneText} |->
        IF t = NoneText
        THEN [classification |-> "AttributeError", confirmation |-> FALSE,
              decrease |-> FALSE]
        ELSE [classification |-> classify(t).classification,
              confirmation |-> _contains_confirmation(t),
              decrease |-> _contains_decrease_keyword(t)]]

HistoryKey(update) == <<update.ticker, update.token>>

\* decrease_pct >= LARGE_DECREASE_THRESHOLD
LargeDecrease_AtThreshold(last_confirmed_value, new_value) ==
    (last_confirmed_value - new_value) * LARGE_DECREASE_THRESHOLD_DEN
        >= LARGE_DECREASE_THRESHOLD_NUM * last_confirmed_value

\* decrease_pct > LARGE_DECREASE_THRESHOLD, for last_confirmed_value > 0; the
\* float quotient compares with 0.5 as the exact one does while
\* last_confirmed_value < 2^53
LargeDecrease(last_confirmed_value, new_value) ==
    (last_confirmed_value - new_value) * LARGE_DECREASE_THRESHOLD_DEN
        > LARGE_DECREASE_THRESHOLD_NUM * last_confirmed_value

\* a seen value accepted without looking for a confirmation keyword
SeenValueDecision_NoKeyword(update) ==
    [ok |-> TRUE, reason |-> "previously seen value confirmed by keyword"]

\* the value was seen before: a confirmation keyword is required
SeenValueDecision(update) ==
    IF TextScan[update.context_text].confirmation
    THEN [ok |-> TRUE, reason |-> "previously seen value confirmed by keyword"]
    ELSE [ok |-> FALSE, reason |-> "oscillation suppressed (value seen before, no confirmation)"]

\* a floor that also takes the value SMALL_VALUE_FLOOR itself
BelowFloor_Inclusive(new_value) == 0 < new_value /\ new_value <= SMALL_VALUE_FLOOR

\* 0 < update.new_value < SMALL_VALUE_FLOOR
BelowFloor(new_value) == 0 < new_value /\ new_value < SMALL_VALUE_FLOOR

should_update(update, hist) ==
    LET key == HistoryKey(update)
        v == update.new_value
    IN  IF key \notin DOMAIN hist
        THEN IF BelowFloor(v)
             THEN [ok |-> FALSE, reason |-> "artifact floor (first observation below minimum)"]
             ELSE [ok |-> TRUE, reason |-> "first observation"]
        ELSE LET record == hist[key]
             IN  IF v = record.last_confirmed_value
                 THEN [ok |-> FALSE, reason |-> "no change from last confirmed value"]
                 ELSE IF v \notin record.seen_values
                 THEN IF BelowFloor(v)
                      THEN [ok |-> FALSE, reason |-> "artifact floor (value too small to be real)"]
                      ELSE IF record.last_confirmed_value > 0
                              /\ LargeDecrease(record.last_confirmed_value, v)
                      THEN IF TextScan[update.context_text].decrease
                           THEN [ok |-> TRUE, reason |-> "large decrease confirmed by keyword"]
                           ELSE [ok |-> FALSE, reason |-> "suspicious large decrease (>50% drop, no confirmation)"]
                      ELSE [ok |-> TRUE, reason |-> "genuinely new value"]
                 ELSE SeenValueDecision(update)

\* record_update that starts the seen-set over
record_update_ForgetsSeen(update, hist, date) ==
    LET key == HistoryKey(update)
        new_record == [last_confirmed_value |-> update.new_value,
                       seen_values |-> {update.new_value},
                       last_update_date |-> date]
    IN  [k \in DOMAIN hist \cup {key} |-> IF k = key THEN new_record ELSE hist[k]]

\* record_update that keeps the last confirmed value of an existing record
record_update_KeepsLast(update, hist, date) ==
    LET key == HistoryKey(update)
        new_record == [last_confirmed_value |->
                           IF key \in DOMAIN hist
                           THEN hist[key].last_confirmed_value
                           ELSE update.new_value,
                       seen_values |->
                           IF key \in DOMAIN hist
                           THEN hist[key].seen_values \cup {update.new_value}
                           ELSE {update.new_value},
                       last_update_date |-> date]
    IN  [k \in DOMAIN hist \cup {key} |-> IF k = key THEN new_record ELSE hist[k]]

\* a new mapping; the argument is a value and stays as it is
record_update(update, hist, date) ==
    LET key == HistoryKey(update)
        new_seen == IF key \in DOMAIN hist
                    THEN hist[key].seen_values \cup {update.new_value}
                    ELSE {update.new_value}
        new_record == [last_confirmed_value |-> update.new_value,
                       seen_values |-> new_seen,
                       last_update_date |-> date]
    IN  [k \in DOMAIN hist \cup {key} |-> IF k = key THEN new_record ELSE hist[k]]

\* HoldingRecord.to_json_dict then json: seen_values is written as a sorted list
RECURSIVE SortedList(_)
SortedList(S) ==
    IF S = {} THEN << >>
    ELSE LET m == CHOOSE x \in S : \A y \in S : x <= y
         IN  <<m>> \o SortedList(S \ {m})

HistoryToJson(hist) ==
    [k \in DOMAIN hist |->
        [last_confirmed_value |-> hist[k].last_confirmed_value,
         seen_values |-> SortedList(hist[k].seen_values),
         last_update_date |-> hist[k].last_update_date]]

\* HoldingRecord.from_json_dict: frozenset(seen_values)
HistoryFromJson(raw) ==
    [k \in DOMAIN raw |->
        [last_confirmed_value |-> raw[k].last_confirmed_value,
         seen_values |-> {raw[k].seen_values[i] : i \in 1..Len(raw[k].seen_values)},
         last_update_date |-> raw[k].last_update_date]]

(***************************************************************************)
(* The ledger (data.json) and the signals                                  *)
(***************************************************************************)
FILINGS_CAP == 20

RECENT_CHANGES_CAP == 10

Groups == {"BTC", "ETH"}

Signal(ticker, token, v, t, s) ==
    [ticker |-> ticker, token |-> token, new_value |-> v, context_text |-> t,
     source_url |-> s.source_url, source_type |-> s.source_type,
     items |-> s.items, filing_form |-> s.filing_form]

\* source_url, source_type, items, filing_form: a website scraper without a
\* URL, an EDGAR filing, an EDGAR filing without a URL
SrcPlain == [source_url |-> "", source_type |-> "", items |-> "", filing_form |-> ""]

SrcEdgar == [source_url |-> "u2", source_type |-> "sec_edgar", items |-> "8.01", filing_form |-> "8-K"]

SrcEdgarNoUrl == [source_url |-> "", source_type |-> "sec_edgar", items |-> "", filing_form |-> "8-K"]

\* ScrapedUpdate values the batches are made of:
\*   holdings texts for a tracked company, at its current value and above;
\*   a value under the artifact floor;
\*   share-buyback and unclassifiable texts at the current value;
\*   signals for a company under manual override;
\*   a ticker that is not in the token group, a token group not in the ledger;
\*   a signal without text, a negative value
Signals ==
    { Signal("MSTR", "BTC", v, t, s) :
        v \in {100, 500}, t \in {TxtHoldings, TxtAcquired, TxtSold},
        s \in {SrcPlain, SrcEdgar} }
    \cup { Signal("MSTR", "BTC", 40, TxtHoldings, SrcPlain) }
    \cup { Signal("MSTR", "BTC", 100, TxtBuyback, s) : s \in {SrcPlain, SrcEdgar} }
    \cup { Signal("MSTR", "BTC", 100, TxtFiling, s) : s \in {SrcEdgar, SrcEdgarNoUrl} }
    \cup { Signal("OVER", "BTC", 500, TxtHoldings, SrcPlain),
           Signal("OVER", "BTC", 100, TxtFiling, SrcEdgar) }
    \cup { Signal("MSTR", "ETH", 500, TxtHoldings, SrcPlain),
           Signal("MSTR", "DOGE", 500, TxtHoldings, SrcPlain) }
    \cup { Signal("MSTR", "BTC", 500, NoneText, SrcPlain),
           Signal("MSTR", "BTC", -5, TxtHoldings, SrcPlain) }

Company(ticker, tokens, override, filings) ==
    [ticker |-> ticker, tokens |-> tokens, change |-> 0, lastUpdate |-> 0,
     manual_override |-> override, filings |-> filings,
     alertUrl |-> "", alertDate |-> 0, alertNote |-> << >>, alertSource |-> "",
     lastSecUpdate |-> 0]

InitCompanies ==
    [g \in Groups |->
        IF g = "BTC"
        THEN << Company("MSTR", 100, FALSE,
                    << [url |-> "u1", date |-> 0, note |-> TxtHoldings,
                        type |-> "dashboard_update", items |-> "", form |-> ""] >>),
                Company("OVER", 100, TRUE, << >>) >>
        ELSE << Company("FGNX", 500, FALSE, << >>) >>]

InitRecentChanges ==
    << [ticker |-> "MSTR", token |-> "BTC", date |-> 0, tokens |-> 100,
        change |-> 10, summary |-> TxtAcquired] >>

RECURSIVE SumTokens(_)
SumTokens(company_list) ==
    IF company_list = << >> THEN 0
    ELSE Head(company_list).tokens + SumTokens(Tail(company_list))

_recalculate_totals(companies) ==
    [g \in DOMAIN companies |-> SumTokens(companies[g])]

\* ledgers the first run_batch may load: totals as the scraper left them, or
\* out of date after the file was edited by hand
InitLedgers ==
    { [lastUpdated |-> 0, totals |-> tot, recentChanges |-> InitRecentChanges,
       companies |-> InitCompanies] :
      tot \in { _recalculate_totals(InitCompanies),
                [_recalculate_totals(InitCompanies) EXCEPT !["BTC"] = 150] } }

\* index of the company in companies[token], 0 for None
_find_company(companies, ticker, token) ==
    IF token \notin DOMAIN companies THEN 0
    ELSE LET hits == {i \in 1..Len(companies[token]) : companies[token][i].ticker = ticker}
         IN  IF hits = {} THEN 0 ELSE CHOOSE i \in hits : \A j \in hits : i <= j

Urls(filings) == {filings[i].url : i \in 1..Len(filings)}

\* the alert fields written when the signal has a source URL
WithAlert(company, scraped, today) ==
    IF scraped.source_url # ""
    THEN [company EXCEPT
            !.alertUrl = scraped.source_url,
            !.alertDate = today,
            !.alertNote = IF IsTruthy(scraped.context_text)
                          THEN Truncate(scraped.context_text, 100) ELSE << >>,
            !.alertSource = IF scraped.source_type # "" THEN scraped.source_type ELSE @,
            !.lastSecUpdate = IF scraped.source_type = "sec_edgar" THEN today ELSE @]
    ELSE company

\* the manual_override flag is not looked at
IsOverridden_Never(company) == FALSE

\* step 2: the company is under manual override
IsOverridden(company) == company.manual_override

\* only UNKNOWN is skipped
NotTokenHolding_UnknownOnly(cls) == cls = "UNKNOWN"

\* step 3: the classification is SHARE_BUYBACK or UNKNOWN
NotTokenHolding(cls) == cls = "SHARE_BUYBACK" \/ cls = "UNKNOWN"

\* the delta is taken after tokens was assigned
ApplyValue_DeltaAfterAssign(company, scraped, today) ==
    [company EXCEPT !.tokens = scraped.new_value,
                    !.change = scraped.new_value - scraped.new_value,
                    !.lastUpdate = today]

\* step 5: tokens, change and lastUpdate of the company
ApplyValue(company, scraped, today) ==
    LET old_value == company.tokens
        delta == scraped.new_value - old_value
    IN  [company EXCEPT !.tokens = scraped.new_value,
                        !.change = delta,
                        !.lastUpdate = today]

\* step 5: filings[] gets the entry in front unless its URL is already there
WithFiling(company, scraped, today) ==
    LET filing_entry ==
            [url |-> scraped.source_url, date |-> today,
             note |-> Truncate(scraped.context_text, 100),
             type |-> IF scraped.source_type = "sec_edgar"
                      THEN "sec_filing" ELSE "dashboard_update",
             items |-> scraped.items, form |-> scraped.filing_form]
    IN  IF IsTruthy(scraped.context_text)
           /\ scraped.source_url \notin Urls(company.filings)
        THEN [company EXCEPT !.filings =
                 Truncate(<<filing_entry>> \o company.filings, FILINGS_CAP)]
        ELSE company

\* [recent_entry] + recent_changes[:10]
PrependRecent_KeepsTen(recent_changes, recent_entry) ==
    <<recent_entry>> \o Truncate(recent_changes, RECENT_CHANGES_CAP)

\* step 5: [recent_entry] + recent_changes[:9]
PrependRecent(recent_changes, recent_entry) ==
    <<recent_entry>> \o Truncate(recent_changes, RECENT_CHANGES_CAP - 1)

process_update(scraped, d, hist, today) ==
    LET companies == d.companies
        i == _find_company(companies, scraped.ticker, scraped.token)
        skip == [data |-> d, history |-> hist, applied |-> FALSE, raised |-> FALSE]
    IN  IF i = 0 THEN skip
        ELSE
        LET company == companies[scraped.token][i]
            cls == TextScan[scraped.context_text].classification
        IN  IF IsOverridden(company) THEN skip
            ELSE IF scraped.context_text = NoneText
            THEN [skip EXCEPT !.raised = TRUE]   \* parser.classify(None)
            ELSE IF NotTokenHolding(cls) THEN skip
            ELSE IF ~should_update(scraped, hist).ok THEN skip
            ELSE
            LET c1 == ApplyValue(company, scraped, today)
                c2 == WithAlert(c1, scraped, today)
                c3 == WithFiling(c2, scraped, today)
                companies2 == [companies EXCEPT ![scraped.token][i] = c3]
                recent_entry ==
                    [ticker |-> scraped.ticker, token |-> scraped.token,
                     date |-> today, tokens |-> scraped.new_value,
                     change |-> c1.change,
                     summary |-> Truncate(scraped.context_text, 200)]
            IN  [data |-> [d EXCEPT
                              !.companies = companies2,
                              !.totals = _recalculate_totals(companies2),
                              !.recentChanges =
                                  PrependRecent(d.recentChanges, recent_entry)],
                 history |-> record_update(scraped, hist, today),
                 applied |-> TRUE, raised |-> FALSE]

record_filing_only(scraped, d, today) ==
    LET companies == d.companies
        i == _find_company(companies, scraped.ticker, scraped.token)
    IN  IF i = 0 THEN [data |-> d, recorded |-> FALSE]
        ELSE
        LET company == companies[scraped.token][i]
            filing_entry ==
                [url |-> scraped.source_url, date |-> today,
                 note |-> IF IsTruthy(scraped.context_text)
                          THEN Truncate(scraped.context_text, 100) ELSE << >>,
                 type |-> "sec_filing",
                 items |-> scraped.items, form |-> scraped.filing_form]
        IN  IF scraped.source_url # "" /\ scraped.source_url \in Urls(company.filings)
            THEN [data |-> d, recorded |-> FALSE]
            ELSE
            LET c1 == [company EXCEPT !.filings =
                          Truncate(<<filing_entry>> \o company.filings, FILINGS_CAP)]
                c2 == WithAlert(c1, scraped, today)
            IN  [data |-> [d EXCEPT !.companies[scraped.token][i] = c2],
                 recorded |-> TRUE]

_is_filing_only_update(update, d) ==
    IF update.filing_form = "" \/ update.source_type # "sec_edgar" THEN FALSE
    ELSE LET i == _find_company(d.companies, update.ticker, update.token)
         IN  IF i = 0 THEN FALSE
             ELSE update.new_value = d.companies[update.token][i].tokens

Bump(s, counter) == [s EXCEPT ![counter] = @ + 1]

\* the summary with the counter of the skip reason incremented
_classify_skip(update, d, hist, s) ==
    LET i == _find_company(d.companies, update.ticker, update.token)
    IN  IF i = 0 THEN Bump(s, "skipped_not_found")
        ELSE IF d.companies[update.token][i].manual_override
        THEN Bump(s, "skipped_override")
        ELSE IF TextScan[update.context_text].classification = "SHARE_BUYBACK"
        THEN Bump(s, "skipped_buyback")
        ELSE IF TextScan[update.context_text].classification = "UNKNOWN"
        THEN Bump(s, "skipped_unknown")
        ELSE Bump(s, "skipped_oscillation")

ZeroSummary ==
    [applied |-> 0, skipped_override |-> 0, skipped_buyback |-> 0,
     skipped_oscillation |-> 0, skipped_unknown |-> 0, skipped_not_found |-> 0,
     filings_recorded |-> 0, errors |-> 0]

\* the exception leaves the try block and ends run_batch
OnException_Propagates(loc) ==
    [data |-> loc.data, history |-> loc.history, dirty |-> loc.dirty,
     summary |-> loc.summary, outcome |-> "error", next |-> "failed"]

\* except Exception: logger.exception, summary["errors"] += 1
OnException(loc) ==
    [data |-> loc.data, history |-> loc.history, dirty |-> loc.dirty,
     summary |-> Bump(loc.summary, "errors"), outcome |-> "error", next |-> "loop"]

\* one iteration of the loop of run_batch on the locals [data, history, dirty,
\* summary]; next is where run_batch goes on
LoopBody(update, loc, today) ==
    IF _is_filing_only_update(update, loc.data)
    THEN LET r == record_filing_only(update, loc.data, today)
         IN  IF r.recorded
             THEN [data |-> r.data, history |-> loc.history, dirty |-> TRUE,
                   summary |-> Bump(loc.summary, "filings_recorded"),
                   outcome |-> "filing_recorded", next |-> "loop"]
             ELSE [data |-> r.data, history |-> loc.history, dirty |-> loc.dirty,
                   summary |-> loc.summary, outcome |-> "filing_skipped",
                   next |-> "loop"]
    ELSE LET r == process_update(update, loc.data, loc.history, today)
         IN  IF r.raised THEN OnException(loc)
             ELSE IF r.applied
             THEN [data |-> r.data, history |-> r.history, dirty |-> TRUE,
                   summary |-> Bump(loc.summary, "applied"),
                   outcome |-> "applied", next |-> "loop"]
             ELSE [data |-> r.data, history |-> r.history, dirty |-> loc.dirty,
                   summary |-> _classify_skip(update, r.data, r.history, loc.summary),
                   outcome |-> "skipped", next |-> "loop"]

stamp_last_updated(d, now) == [d EXCEPT !.lastUpdated = now]

(***************************************************************************)
(* Files.  A file is [len, body]: body is the content being written and    *)
(* len how much of its serialization is on disk.                           *)
(***************************************************************************)
EmptyHistory == [k \in {} |-> 0]

File(body) == [len |-> "full", body |-> body]

NoFile == [len |-> "absent", body |-> << >>]

Exists(f) == f.len # "absent"

\* what a reader of the path gets: the whole serialization or a cut-off one
Complete(f) == f.len = "full"

load_data(f) == f.body

\* {} when the path does not exist
load_history(f) == IF Exists(f) THEN HistoryFromJson(f.body) ELSE EmptyHistory

NoSignal ==
    [ticker |-> "", token |-> "", new_value |-> 0, context_text |-> << >>,
     source_url |-> "", source_type |-> "", items |-> "", filing_form |-> ""]

Running == {"loop", "save_data", "data_write", "data_replace",
            "save_history", "hist_write", "hist_replace"}

\* before the first run: a ledger, no history file
InitPipeline ==
    /\ dataFile \in {File(l) : l \in InitLedgers}
    /\ histFile = NoFile
    /\ dataTmp = NoFile
    /\ histTmp = NoFile
    /\ orphans = 0
    /\ pc = "idle"
    /\ data = load_data(dataFile)
    /\ history = EmptyHistory
    /\ dirty = FALSE
    /\ summary = ZeroSummary
    /\ idx = 0
    /\ runs = 0
    /\ clock = 0
    /\ last = [sig |-> NoSignal, outcome |-> "none"]
    /\ log = << >>
    /\ prev = "idle"
    /\ snapData = dataFile
    /\ snapHist = histFile
    /\ goalData = dataFile
    /\ goalHist = histFile

Init ==
    /\ InitPipeline
    /\ hIn = << >>
    /\ hOut = "none"

harness == <<hIn, hOut>>

files == <<dataFile, histFile, dataTmp, histTmp, orphans>>

goals == <<goalData, goalHist>>

\* run_batch is called: load_data, load_history
StartBatch ==
    /\ pc \in {"idle", "done", "killed", "failed"}
    /\ runs < MaxRuns
    /\ runs' = runs + 1
    /\ clock' = clock + 1
    /\ prev' = pc
    /\ data' = load_data(dataFile)
    /\ history' = load_history(histFile)
    /\ dirty' = FALSE
    /\ summary' = ZeroSummary
    /\ idx' = 0
    /\ last' = [sig |-> NoSignal, outcome |-> "none"]
    /\ snapData' = dataFile
    /\ snapHist' = histFile
    /\ goalData' = dataFile
    /\ goalHist' = histFile
    /\ pc' = "loop"
    /\ UNCHANGED <<files, log, harness>>

\* one iteration of `for update in updates`
Iterate(update) ==
    \E r \in { LoopBody(update,
                   [data |-> data, history |-> history, dirty |-> dirty,
                    summary |-> summary], clock) } :
        /\ data' = r.data
        /\ history' = r.history
        /\ dirty' = r.dirty
        /\ summary' = r.summary
        /\ idx' = idx + 1
        /\ last' = [sig |-> update, outcome |-> r.outcome]
        /\ pc' = r.next
        /\ UNCHANGED <<files, runs, clock, prev, snapData, snapHist, goals, harness>>

\* the first run reads the next signal of its list
ProcessNext ==
    /\ pc = "loop"
    /\ runs = 1
    /\ idx < MaxBatchLen
    /\ \E update \in Signals :
        /\ Iterate(update)
        /\ log' = Append(log, update)

\* a later run is given the same list of signals
ProcessReplay ==
    /\ pc = "loop"
    /\ runs > 1
    /\ idx < Len(log)
    /\ Iterate(log[idx + 1])
    /\ UNCHANGED log

\* the persist step without `if dirty:`
EndLoop_AlwaysSaves ==
    /\ pc = "loop"
    /\ runs > 1 => idx = Len(log)
    /\ data' = stamp_last_updated(data, clock)
    /\ goalData' = File(stamp_last_updated(data, clock))
    /\ goalHist' = File(HistoryToJson(history))
    /\ pc' = "save_data"
    /\ UNCHANGED <<files, history, dirty, summary, idx, last, runs, clock,
                   log, prev, snapData, snapHist, harness>>

\* the loop is over: `if dirty:` stamp_last_updated, then the two saves
EndLoop ==
    /\ pc = "loop"
    /\ runs > 1 => idx = Len(log)
    /\ IF dirty
       THEN /\ data' = stamp_last_updated(data, clock)
            /\ goalData' = File(stamp_last_updated(data, clock))
            /\ goalHist' = File(HistoryToJson(history))
            /\ pc' = "save_data"
       ELSE /\ pc' = "done"
            /\ UNCHANGED <<data, goals>>
    /\ UNCHANGED <<files, history, dirty, summary, idx, last, runs, clock,
                   log, prev, snapData, snapHist, harness>>

others == <<data, history, dirty, summary, idx, last, runs, clock, log, prev,
            snapData, snapHist, goals, harness>>

\* save_data that opens the target itself for writing
SaveDataMkstemp_InPlace ==
    /\ pc = "save_data"
    /\ dataTmp' = [len |-> "empty", body |-> data]
    /\ dataFile' = [len |-> "empty", body |-> data]
    /\ pc' = "data_write"
    /\ UNCHANGED <<histFile, histTmp, orphans, others>>

\* save_data: tempfile.mkstemp in the directory of the target
SaveDataMkstemp ==
    /\ pc = "save_data"
    /\ dataTmp' = [len |-> "empty", body |-> data]
    /\ pc' = "data_write"
    /\ UNCHANGED <<dataFile, histFile, histTmp, orphans, others>>

\* save_data: f.write(serialized) and close
SaveDataWrite ==
    /\ pc = "data_write"
    /\ dataTmp' = [dataTmp EXCEPT !.len = "full"]
    /\ pc' = "data_replace"
    /\ UNCHANGED <<dataFile, histFile, histTmp, orphans, others>>

\* save_data: os.replace(tmp_path, path)
SaveDataReplace ==
    /\ pc = "data_replace"
    /\ dataFile' = dataTmp
    /\ dataTmp' = NoFile
    /\ pc' = "save_history"
    /\ UNCHANGED <<histFile, histTmp, orphans, others>>

\* the locals of a process that is gone
Forget ==
    /\ data' = load_data(dataFile')
    /\ history' = EmptyHistory
    /\ dirty' = FALSE
    /\ summary' = ZeroSummary
    /\ idx' = 0
    /\ last' = [sig |-> NoSignal, outcome |-> "none"]

\* save_data: mkstemp, the write or the replace raises; except BaseException:
\* unlink, raise
SaveDataFail ==
    /\ pc \in {"save_data", "data_write", "data_replace"}
    /\ dataTmp' = NoFile
    /\ pc' = "failed"
    /\ UNCHANGED <<dataFile, histFile, histTmp, orphans>>
    /\ Forget
    /\ UNCHANGED <<runs, clock, log, prev, snapData, snapHist, goals, harness>>

\* save_history: tempfile.mkstemp in the directory of the target
SaveHistoryMkstemp ==
    /\ pc = "save_history"
    /\ histTmp' = [len |-> "empty", body |-> HistoryToJson(history)]
    /\ pc' = "hist_write"
    /\ UNCHANGED <<dataFile, histFile, dataTmp, orphans, others>>

\* save_history: f.write(serialized) and close
SaveHistoryWrite ==
    /\ pc = "hist_write"
    /\ histTmp' = [histTmp EXCEPT !.len = "full"]
    /\ pc' = "hist_replace"
    /\ UNCHANGED <<dataFile, histFile, dataTmp, orphans, others>>

\* save_history: os.replace(tmp_path, path); run_batch returns the summary
SaveHistoryReplace ==
    /\ pc = "hist_replace"
    /\ histFile' = histTmp
    /\ histTmp' = NoFile
    /\ pc' = "done"
    /\ UNCHANGED <<dataFile, dataTmp, orphans, others>>

\* save_history: mkstemp, the write or the replace raises; except
\* BaseException: unlink, raise
SaveHistoryFail ==
    /\ pc \in {"save_history", "hist_write", "hist_replace"}
    /\ histTmp' = NoFile
    /\ pc' = "failed"
    /\ UNCHANGED <<dataFile, histFile, dataTmp, orphans>>
    /\ Forget
    /\ UNCHANGED <<runs, clock, log, prev, snapData, snapHist, goals, harness>>

\* the process is killed: no handler runs, a temp file stays in the directory
Kill ==
    /\ pc \in Running
    /\ pc' = "killed"
    /\ orphans' = orphans + (IF Exists(dataTmp) THEN 1 ELSE 0)
                          + (IF Exists(histTmp) THEN 1 ELSE 0)
    /\ dataTmp' = NoFile
    /\ histTmp' = NoFile
    /\ UNCHANGED <<dataFile, histFile>>
    /\ Forget
    /\ UNCHANGED <<runs, clock, log, prev, snapData, snapHist, goals, harness>>

Next ==
    \/ StartBatch
    \/ ProcessNext
    \/ ProcessReplay
    \/ EndLoop
    \/ SaveDataMkstemp
    \/ SaveDataWrite
    \/ SaveDataReplace
    \/ SaveDataFail
    \/ SaveHistoryMkstemp
    \/ SaveHistoryWrite
    \/ SaveHistoryReplace
    \/ SaveHistoryFail
    \/ Kill

Spec == Init /\ [][Next]_vars

(***************************************************************************)
(* classify on drawn texts                                                 *)
(***************************************************************************)
RECURSIVE Join(_)
\* " ".join(words)
Join(words) ==
    IF words = << >> THEN << >>
    ELSE IF Len(words) = 1 THEN words[1]
    ELSE words[1] \o <<" ">> \o Join(Tail(words))

ClassifyInputs ==
    { Join(ws) : ws \in UNION { [1..n -> Vocabulary] : n \in 0..MaxWords } }

InitClassify ==
    /\ InitPipeline
    /\ hIn \in ClassifyInputs
    /\ hOut = "none"

CallClassify ==
    /\ hOut = "none"
    /\ hOut' = classify(hIn).classification
    /\ UNCHANGED <<files, data, history, dirty, summary, idx, last, pc, runs,
                   clock, log, prev, snapData, snapHist, goals, hIn>>

NextClassify == CallClassify

SpecClassify == InitClassify /\ [][NextClassify]_vars

(***************************************************************************)
(* should_update on drawn candidates and records                           *)
(***************************************************************************)
GuardValues == {0, 49, 50, 100, 101, 200, 500}

\* a history without the key, or with a record: the last confirmed value is
\* one of the seen values
GuardHistories ==
    { EmptyHistory }
    \cup { [k \in {<<"MSTR", "BTC">>} |->
              [last_confirmed_value |-> l, seen_values |-> seen \cup {l},
               last_update_date |-> 0]] :
           l \in GuardValues, seen \in SUBSET GuardValues }

Pending == [ok |-> FALSE, reason |-> "pending"]

InitGuard ==
    /\ InitPipeline
    /\ hIn \in { [update |-> Signal("MSTR", "BTC", v, t, SrcPlain), history |-> h] :
                 v \in GuardValues, t \in ContextTexts, h \in GuardHistories }
    /\ hOut = Pending

CallShouldUpdate ==
    /\ hOut = Pending
    /\ hOut' = should_update(hIn.update, hIn.history)
    /\ UNCHANGED <<files, data, history, dirty, summary, idx, last, pc, runs,
                   clock, log, prev, snapData, snapHist, goals, hIn>>

NextGuard == CallShouldUpdate

SpecGuard == InitGuard /\ [][NextGuard]_vars

(***************************************************************************)
(* _classify_skip on two skipped signals                                   *)
(***************************************************************************)
\* the ledger of the test fixture
SampleLedger ==
    [lastUpdated |-> 0, totals |-> _recalculate_totals(InitCompanies),
     recentChanges |-> InitRecentChanges, companies |-> InitCompanies]

SkipHistories ==
    { EmptyHistory }
    \cup { [k \in {<<"MSTR", "BTC">>} |->
              [last_confirmed_value |-> l, seen_values |-> seen \cup {l},
               last_update_date |-> 0]] :
           l \in {100, 500}, seen \in {{}, {100, 500}} }

\* signals with the history they meet, for which process_update returns
\* was_applied False: the calls of _classify_skip that run_batch makes
SkipCases ==
    { c \in { [update |-> Signal(tk, "BTC", v, t, SrcPlain), history |-> h] :
                tk \in {"MSTR", "OVER", "NOPE"}, v \in {40, 100, 150},
                t \in {TxtHoldings, TxtBuyback, TxtFiling}, h \in SkipHistories } :
        LET r == process_update(c.update, SampleLedger, c.history, 1)
        IN  ~r.applied /\ ~r.raised }

\* the counter that _classify_skip increments
CounterOf(c) ==
    LET s == _classify_skip(c.update, SampleLedger, c.history, ZeroSummary)
    IN  CHOOSE k \in DOMAIN s : s[k] = 1

NoCounters == [a |-> "none", b |-> "none"]

InitSkip ==
    /\ InitPipeline
    /\ hIn \in [a : SkipCases, b : SkipCases]
    /\ hOut = NoCounters

CallClassifySkip ==
    /\ hOut = NoCounters
    /\ hOut' = [a |-> CounterOf(hIn.a), b |-> CounterOf(hIn.b)]
    /\ UNCHANGED <<files, data, history, dirty, summary, idx, last, pc, runs,
                   clock, log, prev, snapData, snapHist, goals, hIn>>

NextSkip == CallClassifySkip

SpecSkip == InitSkip /\ [][NextSkip]_vars

(***************************************************************************)
(* record_update on dict objects.  heap holds the two dicts of a call:     *)
(* "arg" is the caller's history, "copy" the dict made inside; new_history *)
(* is the name of the dict the local variable refers to.  A HoldingRecord  *)
(* is a frozen dataclass with a frozenset: a value.                        *)
(***************************************************************************)
RecordKeys == {<<"MSTR", "BTC">>, <<"FGNX", "ETH">>}

RecordValues ==
    { [last_confirmed_value |-> l, seen_values |-> seen \cup {l},
       last_update_date |-> 0] : l \in {100, 500}, seen \in {{}, {100, 500}} }

RecordHistories ==
    UNION { [ks -> RecordValues] : ks \in SUBSET RecordKeys }

NotStarted ==
    [at |-> "start", new_history |-> "none",
     heap |-> [arg |-> EmptyHistory, copy |-> EmptyHistory]]

InitRecord ==
    /\ InitPipeline
    /\ hIn \in { [update |-> Signal("MSTR", "BTC", v, TxtHoldings, SrcPlain),
                  history |-> h, date |-> 1] :
                 v \in {100, 200, 500}, h \in RecordHistories }
    /\ hOut = NotStarted

pipeline == <<files, data, history, dirty, summary, idx, last, pc, runs,
              clock, log, prev, snapData, snapHist, goals>>

\* the caller passes its dict
RecordCall ==
    /\ hOut.at = "start"
    /\ hOut' = [hOut EXCEPT !.at = "called", !.heap.arg = hIn.history]
    /\ UNCHANGED <<pipeline, hIn>>

\* new_history = history: the local variable names the caller's dict
RecordCopy_Alias ==
    /\ hOut.at = "called"
    /\ hOut' = [hOut EXCEPT !.at = "copied", !.new_history = "arg"]
    /\ UNCHANGED <<pipeline, hIn>>

\* new_history = dict(history)
RecordCopy ==
    /\ hOut.at = "called"
    /\ hOut' = [hOut EXCEPT !.at = "copied", !.new_history = "copy",
                            !.heap.copy = hOut.heap.arg]
    /\ UNCHANGED <<pipeline, hIn>>

\* existing = history.get(key); new_history[key] = HoldingRecord(...)
RecordAssign ==
    /\ hOut.at = "copied"
    /\ LET key == HistoryKey(hIn.update)
           arg == hOut.heap.arg
           new_seen == IF key \in DOMAIN arg
                       THEN arg[key].seen_values \cup {hIn.update.new_value}
                       ELSE {hIn.update.new_value}
           new_record == [last_confirmed_value |-> hIn.update.new_value,
                          seen_values |-> new_seen,
                          last_update_date |-> hIn.date]
           target == hOut.heap[hOut.new_history]
       IN  hOut' = [hOut EXCEPT
                      !.at = "returned",
                      !.heap[hOut.new_history] =
                          [k \in DOMAIN target \cup {key} |->
                              IF k = key THEN new_record ELSE target[k]]]
    /\ UNCHANGED <<pipeline, hIn>>

NextRecord == RecordCall \/ RecordCopy \/ RecordAssign

SpecRecord == InitRecord /\ [][NextRecord]_vars

(***************************************************************************)
(* process_update on ledgers with recentChanges lists of every length      *)
(***************************************************************************)
MaxRecent == 11   \* entries of recentChanges before the update

\* n entries, the newest first, told apart by their token counts
RecentList(n) ==
    [i \in 1..n |->
        [ticker |-> "FGNX", token |-> "ETH", date |-> 0, tokens |-> 500 + n - i,
         change |-> 1, summary |-> TxtAcquired]]

NotApplied == [called |-> FALSE, applied |-> FALSE, recentChanges |-> << >>]

InitRecent ==
    /\ InitPipeline
    /\ hIn \in { [update |-> Signal("MSTR", "BTC", v, t, s),
                  ledger |-> [SampleLedger EXCEPT !.recentChanges = RecentList(n)]] :
                 v \in {100, 150, 500}, t \in {TxtHoldings, TxtAcquired, TxtBuyback},
                 s \in {SrcPlain, SrcEdgar}, n \in 0..MaxRecent }
    /\ hOut = NotApplied

CallProcessUpdate ==
    /\ ~hOut.called
    /\ LET r == process_update(hIn.update, hIn.ledger, EmptyHistory, 1)
       IN  hOut' = [called |-> TRUE, applied |-> r.applied,
                    recentChanges |-> r.data.recentChanges]
    /\ UNCHANGED <<pipeline, hIn>>

NextRecent == CallProcessUpdate

SpecRecent == InitRecent /\ [][NextRecent]_vars

(***************************************************************************)
(* scraper/csv_sync.py: sync_csv on the transactions list of one company   *)
(***************************************************************************)
MaxRows == 2   \* data rows of the CSV file

DecimalDigits == <<"0", "1", "2", "3", "4", "5", "6", "7", "8", "9">>

\* str(n) of the f-string, for 0 <= n <= 99
Decimal(n) ==
    IF n < 10 THEN <<DecimalDigits[n + 1]>>
    ELSE <<DecimalDigits[(n \div 10) + 1], DecimalDigits[(n % 10) + 1]>>

\* f"{date}:{asset}:{total_cost}"
_make_fingerprint(date, asset, total_cost) ==
    date \o <<":">> \o asset \o <<":">> \o Decimal(total_cost)

\* code points of the characters of the date strings, in their order
DateChars == <<"-", "0", "1", "2", "3", "4", "5", "6", "7", "8", "9">>

Ord(c) == CHOOSE i \in 1..Len(DateChars) : DateChars[i] = c

RECURSIVE StrLess(_, _)
\* a < b on str
StrLess(a, b) ==
    IF b = << >> THEN FALSE
    ELSE IF a = << >> THEN TRUE
    ELSE IF Head(a) # Head(b) THEN Ord(Head(a)) < Ord(Head(b))
    ELSE StrLess(Tail(a), Tail(b))

\* cells of a data row: Date and Asset as text, the numbers as read by _int
CsvRows ==
    [Date : {<<"0", "1">>, <<"0", "2">>, << >>},
     Asset : {<<"B", "T", "C">>},
     Quantity : {1, 2},
     TotalCost : {5, 17}]

CsvFiles == UNION { [1..n -> CsvRows] : n \in 0..MaxRows }

RECURSIVE parse_csv(_)
\* rows without Date or Asset are left out; every transaction gets its fingerprint
parse_csv(rows) ==
    IF rows = << >> THEN << >>
    ELSE LET row == Head(rows)
             txn == [date |-> row.Date, asset |-> row.Asset,
                     quantity |-> row.Quantity, totalCost |-> row.TotalCost,
                     fingerprint |->
                         _make_fingerprint(row.Date, row.Asset, row.TotalCost)]
         IN  IF row.Date = << >> \/ row.Asset = << >>
             THEN parse_csv(Tail(rows))
             ELSE <<txn>> \o parse_csv(Tail(rows))

RECURSIVE SortByDateReverse(_)
\* list.sort(key=date, reverse=True): descending by date, stable
SortByDateReverse(list) ==
    IF list = << >> THEN << >>
    ELSE LET front == SortByDateReverse(SubSeq(list, 1, Len(list) - 1))
             x == list[Len(list)]
             keep == {i \in 1..Len(front) : ~StrLess(front[i].date, x.date)}
             n == Cardinality(keep)
         IN  SubSeq(front, 1, n) \o <<x>> \o SubSeq(front, n + 1, Len(front))

RECURSIVE MergeLoop(_, _)
\* the for loop of merge_transactions on [merged, fingerprints, added, skipped]
MergeLoop(acc, incoming) ==
    IF incoming = << >> THEN acc
    ELSE LET txn == Head(incoming)
             fp == txn.fingerprint
         IN  IF fp \in acc.fingerprints
             THEN MergeLoop([acc EXCEPT !.skipped = @ + 1], Tail(incoming))
             ELSE MergeLoop([acc EXCEPT !.merged = Append(@, txn),
                                        !.fingerprints = @ \cup {fp},
                                        !.added = @ + 1], Tail(incoming))

\* merge_transactions that appends every incoming transaction
merge_transactions_NoDedupe(existing, incoming) ==
    [merged |-> SortByDateReverse(existing \o incoming),
     added |-> Len(incoming), skipped |-> 0]

merge_transactions(existing, incoming) ==
    LET r == MergeLoop([merged |-> existing,
                        fingerprints |-> {existing[i].fingerprint : i \in 1..Len(existing)},
                        added |-> 0, skipped |-> 0], incoming)
    IN  [merged |-> SortByDateReverse(r.merged), added |-> r.added,
         skipped |-> r.skipped]

\* transactions lists that earlier imports left in data.json
ImportedBefore ==
    { merge_transactions(<< >>, parse_csv(f)).merged :
        f \in UNION { [1..n -> {r \in CsvRows : r.Quantity = 1}] :
                      n \in 0..2 } }

NoSync == [calls |-> 0, transactions |-> << >>, added |-> 0, skipped |-> 0,
           after_first |-> [transactions |-> << >>, added |-> 0, skipped |-> 0]]

InitCsv ==
    /\ InitPipeline
    /\ hIn \in [csv : CsvFiles, existing : ImportedBefore]
    /\ hOut = [NoSync EXCEPT !.transactions = hIn.existing]

\* sync_csv(csv_path, ticker, token): parse, merge into the transactions of
\* the company, write data.json, return the counts
SyncCsv ==
    /\ hOut.calls < 2
    /\ LET r == merge_transactions(hOut.transactions, parse_csv(hIn.csv))
           result == [transactions |-> r.merged, added |-> r.added,
                      skipped |-> r.skipped]
       IN  hOut' = [calls |-> hOut.calls + 1,
                    transactions |-> r.merged,
                    added |-> r.added,
                    skipped |-> r.skipped,
                    after_first |-> IF hOut.calls = 0 THEN result
                                    ELSE hOut.after_first]
    /\ UNCHANGED <<pipeline, hIn>>

NextCsv == SyncCsv

SpecCsv == InitCsv /\ [][NextCsv]_vars

(***************************************************************************)
(* Properties                                                              *)
(***************************************************************************)
\* the step is one iteration of the loop of run_batch
LoopStep == pc = "loop" /\ idx' = idx + 1

TotalsConsistent(d) ==
    \A g \in DOMAIN d.companies :
        g \in DOMAIN d.totals /\ d.totals[g] = SumTokens(d.companies[g])

\* every key stays and keeps its seen values
SeenGrows(h1, h2) ==
    \A k \in DOMAIN h1 :
        k \in DOMAIN h2 /\ h1[k].seen_values \subseteq h2[k].seen_values

\* the holdings fields of every company, the totals and the recent changes
HoldingsView(d) ==
    [totals |-> d.totals,
     recentChanges |-> d.recentChanges,
     companies |-> [g \in DOMAIN d.companies |->
                       [i \in 1..Len(d.companies[g]) |->
                           [ticker |-> d.companies[g][i].ticker,
                            tokens |-> d.companies[g][i].tokens,
                            change |-> d.companies[g][i].change,
                            lastUpdate |-> d.companies[g][i].lastUpdate]]]]

\* C1: a second run of the same batch on the files the first run left
\* applies nothing and leaves the ledger and the history as they were.
C1_Idempotent ==
    (pc = "done" /\ runs >= 2 /\ prev = "done") =>
        /\ summary.applied = 0
        /\ dataFile = snapData
        /\ histFile = snapHist

\* C2: every ledger file that run_batch writes has, for every token group,
\* totals[group] equal to the sum of tokens over the companies of the group.
C2_TotalsOnWrite ==
    [][dataFile' # dataFile => TotalsConsistent(dataFile'.body)]_vars

\* C3: for a candidate that differs from last_confirmed_value and is in
\* seen_values, should_update accepts exactly when the text has a
\* confirmation keyword, and otherwise rejects as oscillation suppressed.
C3_OscillationSuppression ==
    hOut # Pending =>
        LET u == hIn.update
            h == hIn.history
            key == HistoryKey(u)
        IN  (/\ key \in DOMAIN h
             /\ u.new_value # h[key].last_confirmed_value
             /\ u.new_value \in h[key].seen_values)
            => /\ hOut.ok <=> _contains_confirmation(u.context_text)
               /\ ~hOut.ok =>
                    hOut.reason = "oscillation suppressed (value seen before, no confirmation)"

\* a seen value other than the last confirmed one, among three seen values,
\* arrives without a confirmation keyword and is rejected
C3_Witness ==
    /\ hOut # Pending
    /\ HistoryKey(hIn.update) \in DOMAIN hIn.history
    /\ LET r == hIn.history[HistoryKey(hIn.update)]
       IN  /\ Cardinality(r.seen_values) = 3
           /\ hIn.update.new_value \in r.seen_values
           /\ hIn.update.new_value # r.last_confirmed_value
    /\ ~_contains_confirmation(hIn.update.context_text)
    /\ ~hOut.ok

\* the keyword occurs in the text, whatever the case of the letters
Occurs(kw, text) ==
    \E i \in 1..Len(text) : \E j \in i..Len(text) :
        lower(SubSeq(text, i, j)) = lower(kw)

NumFound(keywords, text) ==
    Cardinality({kw \in {keywords[i] : i \in 1..Len(keywords)} : Occurs(kw, text)})

\* C4: classify returns SHARE_BUYBACK exactly when more distinct share
\* keywords than token keywords occur in the text, TOKEN_HOLDING exactly when
\* fewer, and UNKNOWN on every tie.
C4_FailClosed ==
    hOut # "none" =>
        LET ns == NumFound(SHARE_KEYWORDS, hIn)
            nt == NumFound(TOKEN_KEYWORDS, hIn)
        IN  /\ hOut = "SHARE_BUYBACK" <=> ns > nt
            /\ hOut = "TOKEN_HOLDING" <=> ns < nt
            /\ hOut = "UNKNOWN" <=> ns = nt

\* a text with one share keyword and one token keyword was classified UNKNOWN
C4_Witness ==
    /\ hOut = "UNKNOWN"
    /\ NumFound(SHARE_KEYWORDS, hIn) = 1
    /\ NumFound(TOKEN_KEYWORDS, hIn) = 1

\* C5: the seen-set of every key only grows, in the loop and on disk: an
\* applied signal adds its value and keeps the others, any other signal
\* leaves the history as it is, and a run starts from what the file holds.
C5_MonotonicSeen ==
    [][ /\ SeenGrows(load_history(histFile), load_history(histFile'))
        /\ LoopStep =>
             /\ SeenGrows(history, history')
             /\ last'.outcome = "applied" =>
                  /\ HistoryKey(last'.sig) \in DOMAIN history'
                  /\ last'.sig.new_value \in history'[HistoryKey(last'.sig)].seen_values
             /\ last'.outcome # "applied" => history' = history
        /\ (pc # "loop" /\ pc' = "loop") => history' = load_history(histFile)
      ]_vars

\* an applied signal for a key that already had another seen value
C5_Witness ==
    /\ last.outcome = "applied"
    /\ HistoryKey(last.sig) \in DOMAIN history
    /\ Cardinality(history[HistoryKey(last.sig)].seen_values) >= 2

\* C6: the ledger path and the history path always hold a complete file;
\* each changes only by the os.replace of its save, to the complete new
\* content; a kill or a failure leaves both as they were.
C6_AtomicFile ==
    [][ /\ Complete(dataFile')
        /\ Exists(histFile') => Complete(histFile')
        /\ dataFile' # dataFile =>
             pc = "data_replace" /\ pc' = "save_history" /\ dataFile' = goalData
        /\ histFile' # histFile =>
             pc = "hist_replace" /\ pc' = "done" /\ histFile' = goalHist
      ]_vars

\* the process was killed while the temp file of save_data was on disk, and
\* the ledger is as it was loaded although the batch had changes to write
C6_Witness ==
    /\ pc = "killed"
    /\ orphans > 0
    /\ goalData # snapData
    /\ dataFile = snapData

\* C7: after a kill the two files are both as the batch found them or both
\* as the completed batch leaves them.
C7_KillCommitted ==
    pc = "killed" =>
        \/ /\ dataFile = snapData
           /\ load_history(histFile) = load_history(snapHist)
        \/ /\ dataFile = goalData
           /\ load_history(histFile) = load_history(goalHist)

OverrideFrozen(d1, d2) ==
    \A g \in DOMAIN d1.companies : \A i \in 1..Len(d1.companies[g]) :
        d1.companies[g][i].manual_override =>
            /\ g \in DOMAIN d2.companies
            /\ i <= Len(d2.companies[g])
            /\ d2.companies[g][i].ticker = d1.companies[g][i].ticker
            /\ d2.companies[g][i].manual_override
            /\ d2.companies[g][i].tokens = d1.companies[g][i].tokens
            /\ d2.companies[g][i].change = d1.companies[g][i].change
            /\ d2.companies[g][i].lastUpdate = d1.companies[g][i].lastUpdate

\* C8: no step changes tokens, change or lastUpdate of a company whose
\* manual_override is set, in the loaded ledger or in the ledger file.
C8_ManualOverride ==
    [][ /\ LoopStep => OverrideFrozen(data, data')
        /\ OverrideFrozen(dataFile.body, dataFile'.body) ]_vars

\* a batch whose filing-only signal for the company under override was
\* recorded has been written
C8_Witness ==
    /\ pc = "done"
    /\ last.sig.ticker = "OVER"
    /\ last.outcome = "filing_recorded"
    /\ dataFile # snapData

C10_AppliedEffect ==
    [][ (LoopStep /\ last'.outcome = "applied") =>
            LET u == last'.sig
                g == u.token
                i == _find_company(data.companies, u.ticker, g)
                delta == u.new_value - data.companies[g][i].tokens
            IN  /\ i # 0
                /\ data'.companies[g][i].tokens = u.new_value
                /\ data'.companies[g][i].change = delta
                /\ data'.totals[g] = SumTokens(data'.companies[g])
                /\ data.totals[g] = SumTokens(data.companies[g]) =>
                       data'.totals[g] = data.totals[g] + delta
                /\ Len(data'.recentChanges) = Min(Len(data.recentChanges) + 1, RECENT_CHANGES_CAP)
                /\ data'.recentChanges[1].ticker = u.ticker
                /\ data'.recentChanges[1].token = g
                /\ data'.recentChanges[1].tokens = u.new_value
                /\ data'.recentChanges[1].change = delta
                /\ \A k \in 2..Len(data'.recentChanges) :
                       data'.recentChanges[k] = data.recentChanges[k - 1]
                /\ \A h \in DOMAIN data.companies : \A j \in 1..Len(data.companies[h]) :
                       (h # g \/ j # i) =>
                           data'.companies[h][j].tokens = data.companies[h][j].tokens
      ]_vars

\* a signal of 500 was applied to the company that held 100
C10_Witness ==
    /\ last.outcome = "applied"
    /\ last.sig.new_value = 500
    /\ data.companies["BTC"][1].tokens = 500
    /\ data.companies["BTC"][1].change = 400
    /\ data.recentChanges[1].change = 400

C13_FaultLeavesCommitted ==
    pc = "failed" =>
        /\ dataTmp = NoFile
        /\ histTmp = NoFile
        /\ dataFile = snapData
        /\ histFile = snapHist

\* the situation of a skipped signal, as the operator wants to tell them
\* apart: no matching company, value unchanged, suspicious data
Situation(c) ==
    IF _find_company(SampleLedger.companies, c.update.ticker, c.update.token) = 0
    THEN "not_found"
    ELSE IF SampleLedger.companies[c.update.token][
                _find_company(SampleLedger.companies, c.update.ticker,
                              c.update.token)].manual_override
    THEN "override"
    ELSE IF TextScan[c.update.context_text].classification # "TOKEN_HOLDING"
    THEN "not_token"
    ELSE IF should_update(c.update, c.history).reason
                = "no change from last confirmed value"
    THEN "stable"
    ELSE "suspicious"

\* C14: two skipped signals in different situations among value unchanged,
\* suspicious data and no matching company increment different counters.
C14_DistinctSkipReasons ==
    ( /\ hOut # NoCounters
      /\ Situation(hIn.a) \in {"stable", "suspicious", "not_found"}
      /\ Situation(hIn.b) \in {"stable", "suspicious", "not_found"}
      /\ Situation(hIn.a) # Situation(hIn.b) )
    => hOut.a # hOut.b

\* every company of the ledger holds a token count >= 0
TokensNonNegative(d) ==
    \A g \in DOMAIN d.companies : \A i \in 1..Len(d.companies[g]) :
        d.companies[g][i].tokens >= 0

\* C15: the tokens of every company are >= 0, in the ledger run_batch works
\* on and in the ledger file, whatever new_value the signals carry.
C15_HoldingsNonNegative ==
    TokensNonNegative(data) /\ TokensNonNegative(dataFile.body)

\* C16: during and after record_update the dict passed in has the keys and
\* the records it had; the dict returned is another dict, it carries the
\* records of the other keys over unchanged and holds the new record.
C16_InputNotMutated ==
    /\ hOut.at # "start" => hOut.heap.arg = hIn.history
    /\ hOut.at = "returned" =>
         LET key == HistoryKey(hIn.update)
             new == hOut.heap[hOut.new_history]
         IN  /\ hOut.new_history # "arg"
             /\ DOMAIN new = DOMAIN hIn.history \cup {key}
             /\ \A k \in DOMAIN hIn.history \ {key} : new[k] = hIn.history[k]
             /\ new[key].last_confirmed_value = hIn.update.new_value
             /\ new = record_update(hIn.update, hIn.history, hIn.date)

\* record_update returned for a key that had a record with another value,
\* next to a record of another key
C16_Witness ==
    /\ hOut.at = "returned"
    /\ DOMAIN hIn.history = RecordKeys
    /\ hIn.update.new_value \notin hIn.history[HistoryKey(hIn.update)].seen_values
    /\ hOut.heap.copy # hOut.heap.arg

\* C17: after an applied update recentChanges has at most 10 entries
\* whatever its length before, its first entry is the one of the update, and
\* the entries it had follow in their order, the oldest dropped beyond 10.
C17_RecentChangesBounded ==
    (hOut.called /\ hOut.applied) =>
        LET old == hIn.ledger.recentChanges
            new == hOut.recentChanges
            u == hIn.update
        IN  /\ Len(new) <= 10
            /\ Len(new) = Min(Len(old) + 1, 10)
            /\ new[1].ticker = u.ticker
            /\ new[1].token = u.token
            /\ new[1].tokens = u.new_value
            /\ new[1].change = u.new_value - 100
            /\ new[1].date = 1
            /\ \A k \in 2..Len(new) : new[k] = old[k - 1]

\* an update was applied to a ledger whose recentChanges had 10 entries or
\* more, and the oldest were dropped
C17_Witness ==
    /\ hOut.called
    /\ hOut.applied
    /\ Len(hIn.ledger.recentChanges) >= 10
    /\ Len(hOut.recentChanges) = 10
    /\ hOut.recentChanges[10] = hIn.ledger.recentChanges[9]

\* the filings list of every company has at most 20 entries and no two
\* entries with the same url
FilingsDeduped(d) ==
    \A g \in DOMAIN d.companies : \A i \in 1..Len(d.companies[g]) :
        LET filings == d.companies[g][i].filings
        IN  /\ Len(filings) <= 20
            /\ \A a, b \in 1..Len(filings) :
                   a # b => filings[a].url # filings[b].url

\* C18: after any sequence of applied updates and filing-only records the
\* filings list of every company has at most 20 entries and pairwise
\* distinct urls, in the ledger run_batch works on and in the ledger file.
C18_FilingsBoundedDeduped ==
    FilingsDeduped(data) /\ FilingsDeduped(dataFile.body)

\* C19: the second sync_csv with the same CSV leaves the transactions list
\* the first one left and reports added = 0 and skipped = the number of
\* parsed rows.
C19_CsvSyncIdempotent ==
    hOut.calls = 2 =>
        /\ hOut.transactions = hOut.after_first.transactions
        /\ hOut.added = 0
        /\ hOut.skipped = Len(parse_csv(hIn.csv))

\* the CSV had two rows with the same fingerprint next to a transaction
\* imported before: the first run added one and skipped one, the second run
\* skipped both
C19_Witness ==
    /\ hOut.calls = 2
    /\ Len(hIn.existing) >= 1
    /\ hOut.after_first.added = 1
    /\ hOut.after_first.skipped = 1
    /\ hOut.skipped = 2
    /\ Len(hOut.transactions) = Len(hIn.existing) + 1

\* C20: for a candidate v that is not in the seen-set and not below the
\* floor, with last_confirmed_value L > 0, should_update rejects exactly when
\* v is less than half of L and the text has no decrease keyword; a decrease
\* of exactly half is a genuinely new value, a larger one with a decrease
\* keyword is accepted, and an increase is accepted.
C20_LargeDecreaseBoundary ==
    hOut # Pending =>
        LET u == hIn.update
            h == hIn.history
            key == HistoryKey(u)
            v == u.new_value
        IN  (/\ key \in DOMAIN h
             /\ v \notin h[key].seen_values
             /\ ~(0 < v /\ v < SMALL_VALUE_FLOOR)
             /\ h[key].last_confirmed_value > 0)
            => LET L == h[key].last_confirmed_value
                   kw == _contains_decrease_keyword(u.context_text)
               IN  /\ ~hOut.ok <=> (2 * (L - v) > L /\ ~kw)
                   /\ ~hOut.ok =>
                        hOut.reason = "suspicious large decrease (>50% drop, no confirmation)"
                   /\ 2 * (L - v) = L =>
                        hOut.ok /\ hOut.reason = "genuinely new value"
                   /\ (2 * (L - v) > L /\ kw) =>
                        hOut.ok /\ hOut.reason = "large decrease confirmed by keyword"
                   /\ v > L => hOut.ok /\ hOut.reason = "genuinely new value"

\* 50 after 100 without a decrease keyword was accepted as a new value
C20_Witness ==
    /\ hOut # Pending
    /\ hOut.ok
    /\ hOut.reason = "genuinely new value"
    /\ HistoryKey(hIn.update) \in DOMAIN hIn.history
    /\ hIn.history[HistoryKey(hIn.update)].last_confirmed_value = 100
    /\ hIn.update.new_value = 50
    /\ ~_contains_decrease_keyword(hIn.update.context_text)

(***************************************************************************)
(* should_update then record_update, signal after signal, from an empty    *)
(* history                                                                 *)
(***************************************************************************)
InitFloor ==
    /\ InitPipeline
    /\ hIn = [update |-> NoSignal, history |-> EmptyHistory]
    /\ hOut = Pending

\* steps 4 and 6 of process_update: the history is replaced only when
\* should_update accepts
GuardThenRecord ==
    \E v \in GuardValues, t \in ContextTexts :
        \E u \in { Signal("MSTR", "BTC", v, t, SrcPlain) } :
            \E decision \in { should_update(u, history) } :
                /\ hIn' = [update |-> u, history |-> history]
                /\ hOut' = decision
                /\ history' = IF decision.ok THEN record_update(u, history, clock)
                              ELSE history
                /\ UNCHANGED <<files, data, dirty, summary, idx, last, pc, runs,
                               clock, log, prev, snapData, snapHist, goals>>

SpecFloor == InitFloor /\ [][GuardThenRecord]_vars

FloorReasons ==
    { "artifact floor (first observation below minimum)",
      "artifact floor (value too small to be real)" }

NoFloorValue(hist) ==
    \A k \in DOMAIN hist :
        /\ ~(0 < hist[k].last_confirmed_value
             /\ hist[k].last_confirmed_value < SMALL_VALUE_FLOOR)
        /\ \A s \in hist[k].seen_values : ~(0 < s /\ s < SMALL_VALUE_FLOOR)

\* C21: a candidate strictly between 0 and SMALL_VALUE_FLOOR is rejected by
\* should_update when the key has no record and when the value is not in the
\* record's seen-set, whatever the text; the candidates 0 and
\* SMALL_VALUE_FLOOR are never rejected for the floor; and a history that
\* started empty never holds a value strictly between 0 and the floor, as
\* last confirmed value or as a seen value.
C21_ArtifactFloor ==
    /\ NoFloorValue(history)
    /\ hOut # Pending =>
          LET v == hIn.update.new_value
              key == <<hIn.update.ticker, hIn.update.token>>
              unseen == \/ key \notin DOMAIN hIn.history
                        \/ v \notin hIn.history[key].seen_values
          IN  /\ (0 < v /\ v < SMALL_VALUE_FLOOR /\ unseen)
                    => (~hOut.ok /\ history = hIn.history)
              /\ (v \in {0, SMALL_VALUE_FLOOR}) => hOut.reason \notin FloorReasons

\* a value under the floor was refused for an entity that has a record, and
\* the floor value itself was recorded before
C21_Witness ==
    /\ hOut # Pending
    /\ hIn.update.new_value = 49
    /\ <<"MSTR", "BTC">> \in DOMAIN hIn.history
    /\ SMALL_VALUE_FLOOR \in hIn.history[<<"MSTR", "BTC">>].seen_values
    /\ hOut.reason = "artifact floor (value too small to be real)"
    /\ history = hIn.history

(***************************************************************************)
(* _sec_request: the attempt loop, the rate-limit wait and the clock.      *)
(* Times are in hundredths of a second and kept relative to now:           *)
(* elapsed is time.monotonic() - _last_request_time, since is the time     *)
(* since the previous attempt of the process was sent. Both saturate at    *)
(* TimeCap, which is above every delay the loop compares them with.        *)
(***************************************************************************)
MaxRetries == 3

MaxCalls == 2

\* 0.11 s
_REQUEST_DELAY_SECONDS == 11

TimeCap == _REQUEST_DELAY_SECONDS * (MaxRetries + 2)

\* time.sleep(2 ** attempt), in hundredths of a second
Backoff(attempt) == 100 * 2^attempt

\* time between two calls of _sec_request, time an attempt takes
BetweenCalls == {0, 5, TimeCap}

Durations == {0, 2}

Outcome(kind, status, body) == [kind |-> kind, status |-> status, body |-> body]

NoError == Outcome("none", 0, "")

\* what urlopen and the reading of the body can do: a response (status 200
\* or another success status, body readable or not), an HTTPError, a
\* URLError, a TimeoutError
Outcomes ==
    { Outcome("response", 200, "ok"), Outcome("response", 200, "unreadable"),
      Outcome("response", 204, "ok") }
    \cup { Outcome("HTTPError", c, "") : c \in {403, 404, 429, 500, 502, 503, 504} }
    \cup { Outcome("URLError", 0, ""), Outcome("TimeoutError", 0, "") }

\* every HTTPError is retried
IsRetried_AnyHttpError(code) == TRUE

\* e.code in (429, 500, 502, 503, 504)
IsRetried(code) == code \in {429, 500, 502, 503, 504}

Idle ==
    [pc |-> "idle", attempt |-> 0, elapsed |-> TimeCap, since |-> TimeCap,
     gap |-> TimeCap, sent |-> 0, made |-> 0, last_error |-> NoError,
     outcome |-> NoError, result |-> "none", calls |-> 0]

InitFetch ==
    /\ InitPipeline
    /\ hIn = [retries |-> 0]
    /\ hOut = Idle

Advance(st, dt) ==
    [st EXCEPT !.elapsed = Min(TimeCap, @ + dt), !.since = Min(TimeCap, @ + dt)]

\* _sec_request(url, retries) is called
SecRequestCall ==
    /\ hOut.pc \in {"idle", "returned", "raised"}
    /\ hOut.calls < MaxCalls
    /\ \E n \in 0..MaxRetries, dt \in BetweenCalls :
          /\ hIn' = [retries |-> n]
          /\ hOut' = [Advance(hOut, dt) EXCEPT
                         !.pc = "loop", !.attempt = 0, !.made = 0,
                         !.last_error = NoError, !.outcome = NoError,
                         !.result = "none", !.calls = @ + 1]
    /\ UNCHANGED pipeline

\* the head of `for attempt in range(retries)`: sleep until delay has
\* elapsed since _last_request_time, then send
Attempt ==
    /\ hOut.pc = "loop"
    /\ hOut.attempt < hIn.retries
    /\ \E delay \in { _REQUEST_DELAY_SECONDS * (hOut.attempt + 1) } :
       \E st \in { Advance(hOut, IF hOut.elapsed < delay
                                 THEN delay - hOut.elapsed ELSE 0) } :
          hOut' = [st EXCEPT !.pc = "send", !.gap = st.since, !.since = 0,
                             !.sent = Min(2, @ + 1), !.made = @ + 1]
    /\ UNCHANGED <<pipeline, hIn>>

\* the loop is over: raise ValueError
Exhausted ==
    /\ hOut.pc = "loop"
    /\ hOut.attempt >= hIn.retries
    /\ hOut' = [hOut EXCEPT !.pc = "raised", !.result = "ValueError"]
    /\ UNCHANGED <<pipeline, hIn>>

\* the try block and its two except clauses
Respond ==
    /\ hOut.pc = "send"
    /\ \E o \in Outcomes, d \in Durations :
       \E st \in { [Advance(hOut, d) EXCEPT !.outcome = o] } :
          hOut' =
            IF o.kind = "response"
            THEN IF o.status # 200
                 THEN [st EXCEPT !.elapsed = 0, !.pc = "raised", !.result = "ValueError"]
                 ELSE IF o.body = "unreadable"
                 THEN [st EXCEPT !.elapsed = 0, !.pc = "raised", !.result = "propagated"]
                 ELSE [st EXCEPT !.elapsed = 0, !.pc = "returned", !.result = "body"]
            ELSE IF o.kind = "HTTPError" /\ ~IsRetried(o.status)
            THEN [st EXCEPT !.last_error = o, !.pc = "raised", !.result = "ValueError"]
            ELSE [Advance(st, Backoff(st.attempt)) EXCEPT
                     !.last_error = o, !.attempt = @ + 1, !.pc = "loop"]
    /\ UNCHANGED <<pipeline, hIn>>

NextFetch == SecRequestCall \/ Attempt \/ Exhausted \/ Respond

\* urlopen has a timeout, so every attempt gets its outcome, and the loop
\* runs on its own
SpecFetch ==
    /\ InitFetch
    /\ [][NextFetch]_vars
    /\ WF_vars(Attempt) /\ WF_vars(Exhausted) /\ WF_vars(Respond)

RetryableError(e) ==
    \/ e.kind \in {"URLError", "TimeoutError"}
    \/ e.kind = "HTTPError" /\ e.status \in {429, 500, 502, 503, 504}

\* at most `retries` attempts, and a further attempt only after an error of
\* the retried kinds
RetryDiscipline ==
    /\ hOut.made <= hIn.retries
    /\ (hOut.pc = "send" /\ hOut.made >= 2) => RetryableError(hOut.last_error)
    /\ (hOut.pc = "loop" /\ hOut.made >= 1) => RetryableError(hOut.outcome)
    /\ (hOut.pc = "raised" /\ hOut.outcome.kind = "HTTPError"
            /\ ~RetryableError(hOut.outcome))
          => hOut.result = "ValueError"
    /\ hOut.pc = "returned" => (hOut.result = "body" /\ hOut.outcome.status = 200)

C23_MinimumInterval ==
    (hOut.pc = "send" /\ hOut.sent >= 2) => hOut.gap >= _REQUEST_DELAY_SECONDS

\* C24: when process_update applies a signal whose source URL is empty, the
\* company's alertUrl, alertDate, alertNote, alertSource and its filings list
\* stay as they were; on the company only tokens, change and lastUpdate
\* change.
C24_NoUrlNoAlertNoFiling ==
    [][ (LoopStep /\ last'.outcome = "applied" /\ last'.sig.source_url = "") =>
            LET u == last'.sig
                g == u.token
                i == _find_company(data.companies, u.ticker, g)
                before == data.companies[g][i]
                after == data'.companies[g][i]
            IN  /\ after.alertUrl = before.alertUrl
                /\ after.alertDate = before.alertDate
                /\ after.alertNote = before.alertNote
                /\ after.alertSource = before.alertSource
                /\ after.filings = before.filings
                /\ after = [before EXCEPT !.tokens = after.tokens,
                                          !.change = after.change,
                                          !.lastUpdate = after.lastUpdate]
      ]_vars

(***************************************************************************)
(* SECScraper._find_holdings_in_text on what its extractors found in the   *)
(* text: whether the token is mentioned and the document is relevant, the  *)
(* value of the custom target regex (0 when there is none), the pair of    *)
(* the "from X to Y" pattern, the candidates with their priorities, and    *)
(* whether sell language stands near a token keyword                       *)
(***************************************************************************)
\* return None
NoHoldings == -1

NotCalled == -2

\* numbers inside the validation range of the token
FoundValues == {500, 1000, 2000}

Priorities == {50, 100}

\* candidates: number -> priority score
CandidateDicts ==
    UNION { [nums -> Priorities] : nums \in SUBSET FoundValues }

Documents ==
    [token_mentioned : BOOLEAN, relevant : BOOLEAN,
     target_regex : {0} \cup FoundValues,
     from_to : {<< >>, <<500, 1000>>, <<2000, 500>>, <<500, 800>>},
     candidates : CandidateDicts,
     has_sell_language : BOOLEAN,
     current_holdings : {0, 1000}]

\* sorted(candidates.items(), key=(priority, value), reverse=True)
RECURSIVE SortedCandidates(_)
SortedCandidates(candidates) ==
    IF DOMAIN candidates = {} THEN << >>
    ELSE LET top == CHOOSE n \in DOMAIN candidates :
                       \A m \in DOMAIN candidates :
                           \/ candidates[m] < candidates[n]
                           \/ candidates[m] = candidates[n] /\ m <= n
             rest == [m \in DOMAIN candidates \ {top} |-> candidates[m]]
         IN  <<top>> \o SortedCandidates(rest)

\* the first candidate, in sorted order, that is not below the holdings
FirstNotBelow(sorted_candidates, current_holdings) ==
    LET hits == {k \in 1..Len(sorted_candidates) :
                    sorted_candidates[k] >= current_holdings}
    IN  IF hits = {} THEN NoHoldings
        ELSE sorted_candidates[CHOOSE k \in hits : \A j \in hits : k <= j]

_find_holdings_in_text(doc) ==
    IF ~doc.token_mentioned THEN NoHoldings
    ELSE IF ~doc.relevant THEN NoHoldings
    ELSE IF doc.target_regex # 0 THEN doc.target_regex
    ELSE IF doc.from_to # << >>
    THEN IF doc.from_to[1] >= doc.from_to[2] THEN doc.from_to[1] ELSE doc.from_to[2]
    ELSE IF DOMAIN doc.candidates = {} THEN NoHoldings
    ELSE LET sorted_candidates == SortedCandidates(doc.candidates)
             best_candidate == sorted_candidates[1]
         IN  IF doc.current_holdings > 0 /\ best_candidate < doc.current_holdings
                /\ ~doc.has_sell_language
             THEN FirstNotBelow(sorted_candidates, doc.current_holdings)
             ELSE best_candidate

InitFind ==
    /\ InitPipeline
    /\ hIn \in Documents
    /\ hOut = NotCalled

CallFindHoldings ==
    /\ hOut = NotCalled
    /\ hOut' = _find_holdings_in_text(hIn)
    /\ UNCHANGED <<pipeline, hIn>>

SpecFind == InitFind /\ [][CallFindHoldings]_vars

\* C25: with current holdings above 0, _find_holdings_in_text returns a
\* value below the current holdings only when the text has sell language
\* near a token keyword, whichever way the value was found.
C25_NoSilentDecrease ==
    (hOut >= 0 /\ hIn.current_holdings > 0 /\ hOut < hIn.current_holdings)
        => hIn.has_sell_language

SumCounters(s) ==
    s.applied + s.skipped_override + s.skipped_buyback + s.skipped_oscillation
    + s.skipped_unknown + s.skipped_not_found + s.filings_recorded + s.errors

\* C26: each signal of the batch is counted exactly once: after every
\* iteration of the loop of run_batch, and so in the summary it returns, the
\* eight counters add up to the number of signals gone through.
C26_EverySignalCounted ==
    pc \in Running => SumCounters(summary) = idx

\* _check_history_consistency raises no flag: for every key of the history
\* whose company is in the ledger, tokens is the last confirmed value
LedgerAgrees(d, hist) ==
    \A k \in DOMAIN hist :
        LET i == _find_company(d.companies, k[1], k[2])
        IN  i # 0 => d.companies[k[2]][i].tokens = hist[k].last_confirmed_value

\* C27: before the first run, with no history, ledger and history agree; a
\* run_batch that starts from files that agree keeps its ledger and its
\* history in agreement after every signal, and when it completes without
\* error the two files it leaves agree: for every key TICKER:TOKEN of the
\* history whose company is in the ledger, tokens equals last_confirmed_value.
C27_LedgerHistoryAgree ==
    /\ runs = 0 => LedgerAgrees(load_data(dataFile), load_history(histFile))
    /\ (pc \in Running \cup {"done"}
           /\ LedgerAgrees(load_data(snapData), load_history(snapHist)))
          => /\ LedgerAgrees(data, history)
             /\ pc = "done" =>
                   LedgerAgrees(load_data(dataFile), load_history(histFile))

\* the second run in a row completed, and the files hold 500 for the company
\* in the ledger and in its history record
C27_Witness ==
    /\ pc = "done"
    /\ prev = "done"
    /\ runs = 2
    /\ <<"MSTR", "BTC">> \in DOMAIN load_history(histFile)
    /\ load_history(histFile)[<<"MSTR", "BTC">>].last_confirmed_value = 500
    /\ load_data(dataFile).companies["BTC"][1].tokens = 500
    /\ 100 \in load_history(histFile)[<<"MSTR", "BTC">>].seen_values

\* C28: for an entity that has a history record, no applied update sets the
\* holdings to a value more than 50% below the record's last confirmed value
\* unless the context text of the signal contains a decrease keyword.
C28_NoUnexplainedLargeDrop ==
    [][ (LoopStep /\ last'.outcome = "applied"
            /\ <<last'.sig.ticker, last'.sig.token>> \in DOMAIN history) =>
            LET u == last'.sig
                record == history[<<u.ticker, u.token>>]
            IN  (record.last_confirmed_value > 0
                    /\ 2 * (record.last_confirmed_value - u.new_value)
                           > record.last_confirmed_value)
                    => _contains_decrease_keyword(u.context_text)
      ]_vars

\* C29: process_update never applies a signal whose new_value is the tokens
\* the company already has: every applied update changes the holdings, and
\* the recent-change entry it puts in front has change # 0.
C29_AppliedIsChange ==
    [][ (LoopStep /\ last'.outcome = "applied") =>
            LET u == last'.sig
                i == _find_company(data.companies, u.ticker, u.token)
            IN  /\ u.new_value # data.companies[u.token][i].tokens
                /\ data'.companies[u.token][i].tokens # data.companies[u.token][i].tokens
                /\ data'.recentChanges[1].change # 0
      ]_vars

(***************************************************************************)
(* scraper.run.main: the three fetch stages, then run_batch and            *)
(* apply_enrichments, on what each stage's call does (raise or return)     *)
(***************************************************************************)
Found(ticker, source) == [ticker |-> ticker, source |-> source]

\* fetcher.build_updates(data): raises, or returns a list of updates
EdgarResults ==
    { [raised |-> TRUE, updates |-> << >>] }
    \cup { [raised |-> FALSE, updates |-> l] :
           l \in { << >>, <<Found("MSTR", "edgar")>>,
                   <<Found("MSTR", "edgar"), Found("FGNX", "edgar")>> } }

\* website_scrapers.build_website_updates(data): raises, or returns
\* (web_updates, web_enrichments); the enrichments dict by its keys
WebResults ==
    { [raised |-> TRUE, updates |-> << >>, enrichments |-> {}] }
    \cup { [raised |-> FALSE, updates |-> l, enrichments |-> e] :
           l \in { << >>, <<Found("MSTR", "web")>>, <<Found("FGNX", "web")>>,
                   <<Found("MSTR", "web"), Found("FGNX", "web")>> },
           e \in SUBSET {"MSTR"} }

\* ir_scraper.scrape_all_ir_pages and merge: raises, or the merged list by
\* its length
IrResults == { [raised |-> TRUE, prs |-> 0], [raised |-> FALSE, prs |-> 0],
               [raised |-> FALSE, prs |-> 1] }

NoBatch == <<Found("", "none")>>

MainStart ==
    [pc |-> "edgar", updates |-> << >>, enrichments |-> {},
     edgar_bound |-> FALSE, edgar_updates |-> << >>, discovered_prs |-> 0,
     logged |-> {}, batch |-> NoBatch, applied_enrichments |-> {}]

InitMain ==
    /\ InitPipeline
    /\ hIn \in [edgar : EdgarResults, web : WebResults, ir : IrResults,
                dry_run : BOOLEAN]
    /\ hOut = MainStart

\* 2a: the EDGAR stage; an exception leaves edgar_updates unbound
FetchEdgar ==
    /\ hOut.pc = "edgar"
    /\ hOut' = IF hIn.edgar.raised
               THEN [hOut EXCEPT !.pc = "web",
                                 !.logged = @ \cup {"Failed during EDGAR fetch"}]
               ELSE [hOut EXCEPT !.pc = "web",
                                 !.edgar_bound = TRUE,
                                 !.edgar_updates = hIn.edgar.updates,
                                 !.updates = @ \o hIn.edgar.updates]
    /\ UNCHANGED <<pipeline, hIn>>

\* 2b: the website stage; reading the unbound edgar_updates raises NameError
\* inside the try block, before updates and enrichments are extended
FetchWebsites ==
    /\ hOut.pc = "web"
    /\ hOut' = IF hIn.web.raised \/ ~hOut.edgar_bound
               THEN [hOut EXCEPT !.pc = "ir",
                                 !.logged = @ \cup {"Failed during website scraping"}]
               ELSE LET edgar_tickers == {hOut.edgar_updates[k].ticker :
                                              k \in 1..Len(hOut.edgar_updates)}
                        filtered_web ==
                            SelectSeq(hIn.web.updates,
                                      LAMBDA u : u.ticker \notin edgar_tickers)
                    IN  [hOut EXCEPT !.pc = "ir",
                                     !.updates = @ \o filtered_web,
                                     !.enrichments = @ \cup hIn.web.enrichments]
    /\ UNCHANGED <<pipeline, hIn>>

\* 2c: the IR stage, then the two early returns
ScrapeIr ==
    /\ hOut.pc = "ir"
    /\ \E st \in { IF hIn.ir.raised
                   THEN [hOut EXCEPT !.logged = @ \cup {"Failed during IR page scraping"}]
                   ELSE [hOut EXCEPT !.discovered_prs = hIn.ir.prs] } :
          hOut' = IF st.updates = << >> /\ st.enrichments = {} /\ st.discovered_prs = 0
                  THEN [st EXCEPT !.pc = "done"]
                  ELSE IF hIn.dry_run THEN [st EXCEPT !.pc = "done"]
                  ELSE [st EXCEPT !.pc = "pipeline"]
    /\ UNCHANGED <<pipeline, hIn>>

\* 4: run_batch(updates, ...) when there are updates
RunPipeline ==
    /\ hOut.pc = "pipeline"
    /\ hOut' = [hOut EXCEPT !.pc = "enrich",
                            !.batch = IF hOut.updates # << >> THEN hOut.updates ELSE @]
    /\ UNCHANGED <<pipeline, hIn>>

\* 5: apply_enrichments(data, enrichments) when there are enrichments
ApplyEnrichments ==
    /\ hOut.pc = "enrich"
    /\ hOut' = [hOut EXCEPT !.pc = "done",
                            !.applied_enrichments = hOut.enrichments]
    /\ UNCHANGED <<pipeline, hIn>>

NextMain == FetchEdgar \/ FetchWebsites \/ ScrapeIr \/ RunPipeline \/ ApplyEnrichments

SpecMain == InitMain /\ [][NextMain]_vars

\* C30: when the EDGAR stage raises and build_website_updates returns, the
\* website stage still contributes: all its updates are in the batch and all
\* its enrichments are queued, and unless the run is a dry run they reach
\* run_batch and apply_enrichments.
C30_StagesFailIndependently ==
    (hIn.edgar.raised /\ ~hIn.web.raised) =>
        /\ hOut.pc \in {"ir", "pipeline", "enrich", "done"} =>
              /\ hOut.updates = hIn.web.updates
              /\ hOut.enrichments = hIn.web.enrichments
        /\ (hOut.pc = "done" /\ ~hIn.dry_run) =>
              /\ hIn.web.updates # << >> => hOut.batch = hIn.web.updates
              /\ hOut.applied_enrichments = hIn.web.enrichments
====
